---- MODULE Spec2Model ----
(***************************************************************************)
(* The OpenTracing shim of opentelemetry-js                                *)
(* (packages/opentelemetry-shim-opentracing/src/shim.ts): TracerShim,      *)
(* SpanShim and SpanContextShim over the OpenTelemetry API.                 *)
(*                                                                         *)
(* Objects are kept in heaps and named by their index, so that two fields  *)
(* holding the same object are told apart from two fields holding equal    *)
(* values: api.Baggage objects in baggages, api.Span objects in otelSpans, *)
(* SpanContextShim objects in ctxShims, SpanShim objects in spanShims.     *)
(*                                                                         *)
(* The calls are the same in every specification; each specification draws *)
(* their arguments from the sets its properties are about:                 *)
(*   SpecBaggage   startSpan and setBaggageItem, every childOf, key, value *)
(*   SpecParent    startSpan in every active context                       *)
(*   SpecLinks     startSpan with every list of references                 *)
(*   SpecTags      setTag with every key and value                         *)
(*   SpecInject    inject with every format and carrier                    *)
(*   SpecExtract   extract of what inject wrote                            *)
(*   SpecDispatch  inject and extract under every propagator override      *)
(***************************************************************************)
EXTENDS Integers, Sequences, FiniteSets, TLC

VARIABLES
    baggages,          \* heap of api.Baggage objects
    otelSpans,         \* the api.Span objects the wrapped tracer has made
    ctxShims,          \* the SpanContextShim objects
    spanShims,         \* the SpanShim objects
    active,            \* api.context.active()
    propagators,       \* TracerShim._propagators
    globalPropagator,  \* the propagator api.propagation delegates to
    carrier,           \* the carrier object handed to inject and extract
    call               \* the last call: its arguments, what it passed on, its result

vars == <<baggages, otelSpans, ctxShims, spanShims, active, propagators,
          globalPropagator, carrier, call>>

----------------------------------------------------------------------------
(* Bounds *)

MaxSpanShims == 2
MaxCtxShims == 3
MaxRefs == 2
MaxLoneSpans == 1
MaxExtracted == 1

(* Every SpanContextShim holds one Baggage, the active context may hold one *)
(* more, and startSpan makes one before it looks at childOf.                *)
HeapSize == MaxCtxShims + 2

Keys == {"k1", "k2"}
Vals == {"v1", "v2"}

Undefined == "undefined"

----------------------------------------------------------------------------
(* api.Baggage: an immutable map; setEntry returns a new object *)

EmptyEntries == [k \in {} |-> Undefined]

Free == [live |-> FALSE, entries |-> EmptyEntries]

FreeRefs(h) == {r \in DOMAIN h : ~h[r].live}

NewRef(h) == CHOOSE r \in FreeRefs(h) : \A q \in FreeRefs(h) : r <= q

\* createBaggage(entries): a new Baggage object
createBaggage(h, entries) ==
    [heap |-> [h EXCEPT ![NewRef(h)] = [live |-> TRUE, entries |-> entries]],
     ref |-> NewRef(h)]

\* Baggage.getEntry(key)?.value
getEntry(h, ref, key) ==
    IF key \in DOMAIN h[ref].entries THEN h[ref].entries[key] ELSE Undefined

WithEntry(entries, key, value) ==
    [k \in (DOMAIN entries) \cup {key} |-> IF k = key THEN value ELSE entries[k]]

\* Baggage.setEntry(key, {value}): a new Baggage object, the receiver untouched
setEntry(h, ref, key, value) ==
    createBaggage(h, WithEntry(h[ref].entries, key, value))

\* The references to Baggage objects, in the order the collector visits them:
\* the active context's, then each SpanContextShim's (0 is no object)
Order(shims, ctx) == <<ctx.baggage>> \o [i \in DOMAIN shims |-> shims[i]._baggage]

\* The place of object r after collection: objects keep the order of their
\* first reference
Rank(order, r) ==
    IF r = 0 THEN 0
    ELSE LET first == CHOOSE i \in DOMAIN order :
                        order[i] = r /\ \A j \in 1..(i - 1) : order[j] # r
         IN Cardinality({order[j] : j \in 1..first} \ {0})

\* Garbage collection: the Baggage objects no field holds are dropped and the
\* others moved together; what the fields refer to is unchanged
Compact(h, shims, ctx) ==
    LET order == Order(shims, ctx)
        live == {order[j] : j \in DOMAIN order} \ {0}
        rank == [r \in live \cup {0} |-> Rank(order, r)]
        from == [n \in 1..Cardinality(live) |-> CHOOSE r \in live : rank[r] = n]
    IN [heap |-> [n \in DOMAIN h |-> IF n \in DOMAIN from THEN h[from[n]] ELSE Free],
        shims |-> [i \in DOMAIN shims |-> [shims[i] EXCEPT !._baggage = rank[@]]],
        ctx |-> [ctx EXCEPT !.baggage = rank[@]]]

----------------------------------------------------------------------------
(* api.Context: one slot for the span, one for the baggage *)

NoSpan == [kind |-> "none"]

ROOT_CONTEXT == [span |-> NoSpan, baggage |-> 0]

\* api.setSpan(context, span)
setSpan(context, span) == [context EXCEPT !.span = [kind |-> "span", id |-> span]]

\* api.setSpanContext(context, spanContext): a non-recording span around it
setSpanContext(context, spanContext) ==
    [context EXCEPT !.span = [kind |-> "noop", sc |-> spanContext]]

\* api.setBaggage(context, baggage)
setBaggage(context, baggage) == [context EXCEPT !.baggage = baggage]

NoSpanContext == [undefined |-> TRUE]

\* api.getSpanContext(context)
getSpanContext(context) ==
    CASE context.span.kind = "none" -> NoSpanContext
      [] context.span.kind = "span" -> otelSpans[context.span.id].sc
      [] context.span.kind = "noop" -> context.span.sc

\* api.getBaggage(context): 0 when the context holds none
getBaggage(context) == context.baggage

----------------------------------------------------------------------------
(* Values of the callers *)

Has(options, field) == field \in DOMAIN options

RefTypes == {"child_of", "follows_from"}

Foreign == [kind |-> "foreign"]

\* What a method of return type void returns
Void == [kind |-> "undefined"]

SpanShimRef(s) == [kind |-> "spanShim", id |-> s]

CtxShimRef(c) == [kind |-> "ctxShim", id |-> c]

SpanShimRefs == {SpanShimRef(s) : s \in DOMAIN spanShims}

CtxShimRefs == {CtxShimRef(c) : c \in DOMAIN ctxShims}

\* SpanAttributeValue, as JavaScript tells values apart: by type and value
JsTrue == [type |-> "boolean", val |-> "true"]

JsFalse == [type |-> "boolean", val |-> "false"]

JsString(s) == [type |-> "string", val |-> s]

TagValues == {JsTrue, JsFalse, JsString("true"), JsString("false"), JsString("GET")}

ERROR == "error"

TagKeys == {ERROR, "http.method"}

EmptyAttributes == [k \in {} |-> JsFalse]

FORMAT_BINARY == "binary"

FORMAT_TEXT_MAP == "text_map"

FORMAT_HTTP_HEADERS == "http_headers"

Formats == {FORMAT_BINARY, FORMAT_TEXT_MAP, FORMAT_HTTP_HEADERS, "unknown-format"}

\* What a caller may hand over as the carrier; "object" is the carrier object
CarrierArgs == {"object", "undefined", "string"}

IsObject(carrierArg) == carrierArg = "object"

EmptyCarrier == [p \in {} |-> Undefined]

GlobalPropagators == {"g1", "g2"}

----------------------------------------------------------------------------
(* The wrapped collaborators: tracer, span, propagator *)

\* Tracer.startSpan(name, options, context): a new span, in the trace of the
\* context's span when it has one
tracer_startSpan(n, opts, context) ==
    LET parent == getSpanContext(context)
    IN [sc |-> [traceId |-> IF parent = NoSpanContext THEN n ELSE parent.traceId,
                spanId |-> n],
        status |-> "UNSET",
        attributes |-> EmptyAttributes]

\* Span.setAttribute(key, value)
setAttribute(span, key, value) ==
    [span EXCEPT !.attributes =
        [k \in (DOMAIN span.attributes) \cup {key} |->
            IF k = key THEN value ELSE span.attributes[k]]]

\* Span.setAttributes(map)
setAttributes(span, map) ==
    [span EXCEPT !.attributes =
        [k \in (DOMAIN span.attributes) \cup (DOMAIN map) |->
            IF k \in DOMAIN map THEN map[k] ELSE span.attributes[k]]]

\* Span.setStatus({code})
setStatus(span, code) == [span EXCEPT !.status = code]

\* TextMapPropagator.inject(context, carrier, setter): propagator p writes the
\* span context and the baggage entries under its own keys
propagator_inject(p, context, car) ==
    LET payload == [sc |-> getSpanContext(context),
                    entries |-> IF getBaggage(context) = 0 THEN EmptyEntries
                                ELSE baggages[getBaggage(context)].entries]
    IN [q \in (DOMAIN car) \cup {p} |-> IF q = p THEN payload ELSE car[q]]

\* TextMapPropagator.extract(ROOT_CONTEXT, carrier, getter): propagator p reads
\* its own keys; no span context without them, no baggage without entries
propagator_extract(p, carrierArg, car, h) ==
    IF ~IsObject(carrierArg) \/ p \notin DOMAIN car
    THEN [context |-> ROOT_CONTEXT, heap |-> h]
    ELSE LET payload == car[p]
             withSpan == setSpanContext(ROOT_CONTEXT, payload.sc)
             made == createBaggage(h, payload.entries)
         IN IF payload.entries = EmptyEntries
            THEN [context |-> withSpan, heap |-> h]
            ELSE [context |-> setBaggage(withSpan, made.ref), heap |-> made.heap]

----------------------------------------------------------------------------
(* shim.ts *)

\* translateReferences, had it made a link of every reference
RECURSIVE translateReferences_all(_)
translateReferences_all(references) ==
    IF references = <<>> THEN <<>>
    ELSE LET reference == Head(references)
             context == reference.referencedContext
         IN <<[context |-> IF context.kind = "ctxShim"
                           THEN ctxShims[context.id]._spanContext
                           ELSE NoSpanContext,
               attributes |-> ("span.kind" :> reference.type)]>>
            \o translateReferences_all(Tail(references))

RECURSIVE translateReferences(_)
translateReferences(references) ==
    IF references = <<>> THEN <<>>
    ELSE LET reference == Head(references)
             context == reference.referencedContext
         IN (IF context.kind = "ctxShim"
             THEN <<[context |-> ctxShims[context.id]._spanContext,
                     attributes |-> ("span.kind" :> reference.type)]>>
             ELSE <<>>)
            \o translateReferences(Tail(references))

translateSpanOptions(options) ==
    LET opts == ("startTime" :> IF Has(options, "startTime")
                                THEN options.startTime ELSE Undefined)
    IN IF Has(options, "references")
       THEN opts @@ ("links" :> translateReferences(options.references))
       ELSE opts

\* getContextWithParent, had it looked at childOf only when no span is active
getContextWithParent_ambientFirst(options) ==
    IF active.span.kind # "none" THEN active
    ELSE IF Has(options, "childOf") /\ options.childOf.kind = "spanShim"
    THEN setSpan(active, spanShims[options.childOf.id]._span)
    ELSE IF Has(options, "childOf") /\ options.childOf.kind = "ctxShim"
    THEN setSpanContext(active, ctxShims[options.childOf.id]._spanContext)
    ELSE active

getContextWithParent(options) ==
    IF Has(options, "childOf") /\ options.childOf.kind = "spanShim"
    THEN setSpan(active, spanShims[options.childOf.id]._span)
    ELSE IF Has(options, "childOf") /\ options.childOf.kind = "ctxShim"
    THEN setSpanContext(active, ctxShims[options.childOf.id]._spanContext)
    ELSE active

\* SpanContextShim.getBaggageItem
getBaggageItem(c, key) == getEntry(baggages, ctxShims[c]._baggage, key)

\* setBaggageItem, had it written the entry into the Baggage it holds
setBaggageItem_inPlace(c, key, value) ==
    [baggages |-> [baggages EXCEPT ![ctxShims[c]._baggage].entries =
                      WithEntry(@, key, value)],
     ctxShims |-> ctxShims]

\* setBaggageItem, had it dropped the Baggage that setEntry returns
setBaggageItem_dropped(c, key, value) ==
    [baggages |-> setEntry(baggages, ctxShims[c]._baggage, key, value).heap,
     ctxShims |-> ctxShims]

\* SpanContextShim.setBaggageItem: the heap and the shims after the call
setBaggageItem(c, key, value) ==
    LET made == setEntry(baggages, ctxShims[c]._baggage, key, value)
    IN [baggages |-> made.heap,
        ctxShims |-> [ctxShims EXCEPT ![c]._baggage = made.ref]]

\* startSpanBaggage, had it taken the baggage of the active context
startSpanBaggage_ambient(options, created) ==
    IF getBaggage(active) # 0 THEN getBaggage(active)
    ELSE IF Has(options, "childOf") /\ options.childOf.kind = "spanShim"
    THEN ctxShims[spanShims[options.childOf.id]._contextShim]._baggage
    ELSE IF Has(options, "childOf") /\ options.childOf.kind = "ctxShim"
    THEN ctxShims[options.childOf.id]._baggage
    ELSE created

\* TracerShim.startSpan, the baggage of the new span; created is the Baggage
\* createBaggage() has just made
startSpanBaggage(options, created) ==
    IF Has(options, "childOf") /\ options.childOf.kind = "spanShim"
    THEN ctxShims[spanShims[options.childOf.id]._contextShim]._baggage
    ELSE IF Has(options, "childOf") /\ options.childOf.kind = "ctxShim"
    THEN ctxShims[options.childOf.id]._baggage
    ELSE created

\* _getPropagator, had both formats read the text-map override
_getPropagator_shared(format) ==
    CASE format \in {FORMAT_TEXT_MAP, FORMAT_HTTP_HEADERS} ->
            IF Has(propagators, "textMapPropagator")
            THEN propagators.textMapPropagator ELSE globalPropagator
      [] OTHER -> Undefined

\* TracerShim._getPropagator: the propagator the format resolves to now
_getPropagator(format) ==
    CASE format = FORMAT_TEXT_MAP ->
            IF Has(propagators, "textMapPropagator")
            THEN propagators.textMapPropagator ELSE globalPropagator
      [] format = FORMAT_HTTP_HEADERS ->
            IF Has(propagators, "httpHeadersPropagator")
            THEN propagators.httpHeadersPropagator ELSE globalPropagator
      [] OTHER -> Undefined

\* setTag, had it taken every truthy value of the error tag for an error
setTag_truthy(span, key, value) ==
    IF key = ERROR /\ value \notin {JsFalse, JsString("")}
    THEN setStatus(span, "ERROR")
    ELSE setAttribute(span, key, value)

\* SpanShim.setTag: the wrapped span after the call
setTag(span, key, value) ==
    IF key = ERROR /\ (value = JsTrue \/ value = JsString("true"))
    THEN setStatus(span, "ERROR")
    ELSE setAttribute(span, key, value)

\* _inject, had it looked at the format before the carrier, as _extract does
_inject_formatFirst(c, format, carrierArg, car) ==
    LET propagator == _getPropagator(format)
        context == setBaggage(setSpanContext(ROOT_CONTEXT, ctxShims[c]._spanContext),
                              ctxShims[c]._baggage)
        nothing == [carrier |-> car, warns |-> <<>>,
                    propagator |-> Undefined, context |-> ROOT_CONTEXT]
    IN IF format = FORMAT_BINARY
       THEN [nothing EXCEPT !.warns =
                <<"OpentracingShim.inject() does not support FORMAT_BINARY">>]
       ELSE IF ~IsObject(carrierArg) THEN nothing
       ELSE IF propagator # Undefined
       THEN [carrier |-> propagator_inject(propagator, context, car),
             warns |-> <<>>, propagator |-> propagator, context |-> context]
       ELSE nothing

\* _inject, had it left the baggage out of the context it hands over
_inject_noBaggage(c, format, carrierArg, car) ==
    LET propagator == _getPropagator(format)
        context == setSpanContext(ROOT_CONTEXT, ctxShims[c]._spanContext)
        nothing == [carrier |-> car, warns |-> <<>>,
                    propagator |-> Undefined, context |-> ROOT_CONTEXT]
    IN IF ~IsObject(carrierArg) THEN nothing
       ELSE IF format = FORMAT_BINARY
       THEN [nothing EXCEPT !.warns =
                <<"OpentracingShim.inject() does not support FORMAT_BINARY">>]
       ELSE IF propagator # Undefined
       THEN [carrier |-> propagator_inject(propagator, context, car),
             warns |-> <<>>, propagator |-> propagator, context |-> context]
       ELSE nothing

\* TracerShim._inject: the carrier after the call, the warnings it gave, the
\* propagator it called and the context it handed to it
_inject(c, format, carrierArg, car) ==
    LET oTelSpanContext == ctxShims[c]._spanContext
        oTelSpanBaggage == ctxShims[c]._baggage
        propagator == _getPropagator(format)
        context == setBaggage(setSpanContext(ROOT_CONTEXT, oTelSpanContext),
                              oTelSpanBaggage)
        nothing == [carrier |-> car, warns |-> <<>>,
                    propagator |-> Undefined, context |-> ROOT_CONTEXT]
    IN IF ~IsObject(carrierArg) THEN nothing
       ELSE IF format = FORMAT_BINARY
       THEN [nothing EXCEPT !.warns =
                <<"OpentracingShim.inject() does not support FORMAT_BINARY">>]
       ELSE IF propagator # Undefined
       THEN [carrier |-> propagator_inject(propagator, context, car),
             warns |-> <<>>, propagator |-> propagator, context |-> context]
       ELSE nothing

\* _extract, had it not looked whether a span context was extracted
_extract_unchecked(format, carrierArg, car) ==
    LET propagator == _getPropagator(format)
        got == propagator_extract(propagator, carrierArg, car, baggages)
        baggage == getBaggage(got.context)
        made == createBaggage(got.heap, EmptyEntries)
        nothing == [baggages |-> baggages, ctxShims |-> ctxShims, warns |-> <<>>,
                    propagator |-> Undefined, ret |-> 0]
    IN IF format = FORMAT_BINARY
       THEN [nothing EXCEPT !.warns =
                <<"OpentracingShim.extract() does not support FORMAT_BINARY">>]
       ELSE IF propagator # Undefined
       THEN [baggages |-> IF baggage # 0 THEN got.heap ELSE made.heap,
             ctxShims |-> Append(ctxShims,
                 [_spanContext |-> getSpanContext(got.context),
                  _baggage |-> IF baggage # 0 THEN baggage ELSE made.ref]),
             warns |-> <<>>, propagator |-> propagator,
             ret |-> Len(ctxShims) + 1]
       ELSE nothing

\* TracerShim._extract: the heap and the shims after the call, the warnings it
\* gave, the propagator it called and the result (0 is null)
_extract(format, carrierArg, car) ==
    LET propagator == _getPropagator(format)
        got == propagator_extract(propagator, carrierArg, car, baggages)
        spanContext == getSpanContext(got.context)
        baggage == getBaggage(got.context)
        made == createBaggage(got.heap, EmptyEntries)
        nothing == [baggages |-> baggages, ctxShims |-> ctxShims, warns |-> <<>>,
                    propagator |-> Undefined, ret |-> 0]
    IN IF format = FORMAT_BINARY
       THEN [nothing EXCEPT !.warns =
                <<"OpentracingShim.extract() does not support FORMAT_BINARY">>]
       ELSE IF propagator # Undefined
       THEN IF spanContext = NoSpanContext
            THEN [nothing EXCEPT !.propagator = propagator]
            ELSE [baggages |-> IF baggage # 0 THEN got.heap ELSE made.heap,
                  ctxShims |-> Append(ctxShims,
                      [_spanContext |-> spanContext,
                       _baggage |-> IF baggage # 0 THEN baggage ELSE made.ref]),
                  warns |-> <<>>, propagator |-> propagator,
                  ret |-> Len(ctxShims) + 1]
       ELSE nothing

----------------------------------------------------------------------------
(* The calls *)

EmptyOptions == [f \in {} |-> Undefined]

Optional(field, values) == {EmptyOptions} \cup {field :> v : v \in values}

References(targets) ==
    UNION {[1..n -> [type : RefTypes, referencedContext : targets]] : n \in 0..MaxRefs}

\* new TracerShim(tracer)
Init ==
    /\ baggages = [r \in 1..HeapSize |-> Free]
    /\ otelSpans = <<>>
    /\ ctxShims = <<>>
    /\ spanShims = <<>>
    /\ active = ROOT_CONTEXT
    /\ propagators = EmptyOptions
    /\ globalPropagator = "g1"
    /\ carrier = EmptyCarrier
    /\ call = [op |-> "new TracerShim"]

\* new TracerShim(tracer, propagators), with any of the two overrides
InitConfigured ==
    /\ baggages = [r \in 1..HeapSize |-> Free]
    /\ otelSpans = <<>>
    /\ ctxShims = <<>>
    /\ spanShims = <<>>
    /\ active = ROOT_CONTEXT
    /\ propagators \in {t @@ h : t \in Optional("textMapPropagator", {"pA"}),
                                  h \in Optional("httpHeadersPropagator", {"pB"})}
    /\ globalPropagator = "g1"
    /\ carrier = EmptyCarrier
    /\ call = [op |-> "new TracerShim"]

\* tracer.startSpan(name, options)
StartSpan(name, options) ==
    LET opts == translateSpanOptions(options)
        context == getContextWithParent(options)
        n == Len(otelSpans) + 1
        span == tracer_startSpan(n, opts, context)
        created == createBaggage(baggages, EmptyEntries)
        baggage == startSpanBaggage(options, created.ref)
        tagged == IF Has(options, "tags") THEN setAttributes(span, options.tags)
                  ELSE span
        shims == Append(ctxShims, [_spanContext |-> tagged.sc, _baggage |-> baggage])
        collected == Compact(created.heap, shims, active)
    IN /\ Len(ctxShims) < MaxCtxShims
       /\ otelSpans' = Append(otelSpans, tagged)
       /\ ctxShims' = collected.shims
       /\ spanShims' = Append(spanShims, [_span |-> n, _contextShim |-> Len(shims)])
       /\ baggages' = collected.heap
       /\ call' = [op |-> "startSpan", options |-> options,
                   tracer |-> [name |-> name, options |-> opts, context |-> context],
                   ret |-> Len(spanShims) + 1]
       /\ UNCHANGED <<active, propagators, globalPropagator, carrier>>

\* spanContext.setBaggageItem(key, value)
CtxSetBaggageItem(c, key, value) ==
    LET after == setBaggageItem(c, key, value)
        collected == Compact(after.baggages, after.ctxShims, active)
    IN /\ ctxShims' = collected.shims
       /\ baggages' = collected.heap
       /\ call' = [op |-> "setBaggageItem", shim |-> c, key |-> key, value |-> value,
                   ret |-> Void]
       /\ UNCHANGED <<otelSpans, spanShims, active, propagators, globalPropagator, carrier>>

\* span.setBaggageItem(key, value): the span's own SpanContextShim, returns this
SpanSetBaggageItem(s, key, value) ==
    LET after == setBaggageItem(spanShims[s]._contextShim, key, value)
        collected == Compact(after.baggages, after.ctxShims, active)
    IN /\ ctxShims' = collected.shims
       /\ baggages' = collected.heap
       /\ call' = [op |-> "setBaggageItem", shim |-> spanShims[s]._contextShim,
                   key |-> key, value |-> value, ret |-> SpanShimRef(s)]
       /\ UNCHANGED <<otelSpans, spanShims, active, propagators, globalPropagator, carrier>>

\* span.setTag(key, value)
SetTag(s, key, value) ==
    /\ otelSpans' = [otelSpans EXCEPT ![spanShims[s]._span] =
                        setTag(otelSpans[spanShims[s]._span], key, value)]
    /\ call' = [op |-> "setTag", span |-> s, key |-> key, value |-> value,
                ret |-> SpanShimRef(s)]
    /\ UNCHANGED <<baggages, ctxShims, spanShims, active, propagators,
                   globalPropagator, carrier>>

\* tracer.inject(spanContext, format, carrier)
Inject(c, format, carrierArg) ==
    LET did == _inject(c, format, carrierArg, carrier)
    IN /\ carrier' = did.carrier
       /\ call' = [op |-> "inject", shim |-> c, format |-> format,
                   carrierArg |-> carrierArg, warns |-> did.warns,
                   propagator |-> did.propagator, context |-> did.context]
       /\ UNCHANGED <<baggages, otelSpans, ctxShims, spanShims, active, propagators,
                      globalPropagator>>

\* tracer.extract(format, carrier)
Extract(format, carrierArg) ==
    LET did == _extract(format, carrierArg, carrier)
        collected == Compact(did.baggages, did.ctxShims, active)
    IN /\ Len(did.ctxShims) <= MaxCtxShims
       /\ ctxShims' = collected.shims
       /\ baggages' = collected.heap
       /\ call' = [op |-> "extract", format |-> format, carrierArg |-> carrierArg,
                   warns |-> did.warns, propagator |-> did.propagator,
                   ret |-> did.ret]
       /\ UNCHANGED <<otelSpans, spanShims, active, propagators, globalPropagator, carrier>>

(* The surroundings *)

\* The caller runs on in another active context: the root context, one that
\* carries the span another process called from, or one that carries a span of
\* the wrapped tracer and its baggage
SetActive(context) ==
    LET collected == Compact(baggages, ctxShims, context)
    IN /\ collected.ctx # active
       /\ active' = collected.ctx
       /\ ctxShims' = collected.shims
       /\ baggages' = collected.heap
       /\ call' = [op |-> "context.with"]
       /\ UNCHANGED <<otelSpans, spanShims, propagators, globalPropagator, carrier>>

\* The span context of a span of another process
RemoteSpanContext == [traceId |-> 0, spanId |-> 0]

ActiveContexts ==
    {ROOT_CONTEXT, setSpanContext(ROOT_CONTEXT, RemoteSpanContext)} \cup
    {setBaggage(setSpan(ROOT_CONTEXT, spanShims[s]._span),
                ctxShims[spanShims[s]._contextShim]._baggage) : s \in DOMAIN spanShims}

\* api.propagation.setGlobalPropagator(g)
SetGlobalPropagator(g) ==
    /\ g # globalPropagator
    /\ globalPropagator' = g
    /\ call' = [op |-> "setGlobalPropagator"]
    /\ UNCHANGED <<baggages, otelSpans, ctxShims, spanShims, active, propagators, carrier>>

\* The caller takes a new, empty carrier object
NewCarrier ==
    /\ carrier # EmptyCarrier
    /\ carrier' = EmptyCarrier
    /\ call' = [op |-> "new carrier"]
    /\ UNCHANGED <<baggages, otelSpans, ctxShims, spanShims, active, propagators,
                   globalPropagator>>

----------------------------------------------------------------------------
(* Baggage and parents: startSpan under every childOf and active context *)

ChildOfs == SpanShimRefs \cup CtxShimRefs \cup {Foreign}

StartChild ==
    /\ Len(spanShims) < MaxSpanShims
    /\ \E o \in Optional("childOf", ChildOfs) : StartSpan("op", o)

SetBaggage ==
    \/ \E c \in DOMAIN ctxShims, k \in Keys, v \in Vals : CtxSetBaggageItem(c, k, v)
    \/ \E s \in DOMAIN spanShims, k \in Keys, v \in Vals : SpanSetBaggageItem(s, k, v)

Activate == \E context \in ActiveContexts : SetActive(context)

NextBaggage == StartChild \/ SetBaggage

SpecBaggage == Init /\ [][NextBaggage]_vars

\* The baggage entries a SpanContextShim holds
Entries(c) == baggages[ctxShims[c]._baggage].entries

\* getBaggageItem(key) on SpanContextShim c after the step
ItemAfter(c, key) == getEntry(baggages', ctxShims'[c]._baggage, key)

\* C1: baggage is isolated between distinct adapters. What getBaggageItem(k)
\* returns on an adapter changes only in a setBaggageItem(k, v) on that same
\* adapter: no setBaggageItem on a parent or a child changes any key of the
\* other, and a child keeps what it got at creation until it overwrites it.
C1_BaggageIsolated ==
    [][\A b \in DOMAIN ctxShims, k \in Keys :
          ItemAfter(b, k) # getBaggageItem(b, k)
          => /\ call'.op = "setBaggageItem"
             /\ call'.shim = b
             /\ call'.key = k]_vars

\* A parent has just set a key its child holds with another value
C1_Witness ==
    /\ call.op = "setBaggageItem"
    /\ \E child \in DOMAIN ctxShims :
          /\ child > call.shim
          /\ ctxShims[child]._spanContext.traceId
                = ctxShims[call.shim]._spanContext.traceId
          /\ getBaggageItem(child, call.key) \notin {Undefined, call.value}

\* The adapter a setBaggageItem call returned: 0 when it returned nothing
Returned(c) == IF c.ret.kind = "spanShim" THEN spanShims[c.ret.id]._contextShim ELSE 0

\* C2 as stated: B = A.setBaggageItem(k, v) leaves A.getBaggageItem(k) as it
\* was, and B.getBaggageItem(k) = v.
C2_AsStated ==
    [][call'.op = "setBaggageItem"
       => /\ ItemAfter(call'.shim, call'.key) = getBaggageItem(call'.shim, call'.key)
          /\ Returned(call') # 0
          /\ ItemAfter(Returned(call'), call'.key) = call'.value]_vars

\* C2 as amended: setBaggageItem derives no adapter. On a SpanContextShim it
\* returns nothing and on a SpanShim it returns that SpanShim; after
\* A.setBaggageItem(k, v), A.getBaggageItem(k) = v and A.getBaggageItem of
\* every other key is as it was.
C2_SetBaggageItem ==
    [][call'.op = "setBaggageItem"
       => /\ ItemAfter(call'.shim, call'.key) = call'.value
          /\ \A k \in Keys \ {call'.key} :
                ItemAfter(call'.shim, k) = getBaggageItem(call'.shim, k)
          /\ Len(ctxShims') = Len(ctxShims)
          /\ Returned(call') \in {0, call'.shim}]_vars

\* An adapter has just overwritten a key: the other key is still there
C2_Witness ==
    /\ call.op = "setBaggageItem"
    /\ call.ret.kind = "spanShim"
    /\ \E k \in Keys \ {call.key} : getBaggageItem(call.shim, k) # Undefined
    /\ getBaggageItem(call.shim, call.key) = "v2"

----------------------------------------------------------------------------
(* Parents: startSpan under every childOf, in every active context *)

SetOneBaggage ==
    \E c \in DOMAIN ctxShims, v \in Vals : CtxSetBaggageItem(c, "k1", v)

NextParent == StartChild \/ SetOneBaggage \/ Activate

SpecParent == Init /\ [][NextParent]_vars

\* childOf, as startSpan tells it apart
ChildOfKind(options) ==
    IF Has(options, "childOf") THEN options.childOf.kind ELSE "absent"

\* C3: parent precedence. Whatever the active context, startSpan with childOf
\* a SpanShim hands the wrapped tracer a context whose span is the wrapped span
\* of that SpanShim, with childOf a SpanContextShim a context whose span context
\* is the wrapped one of that SpanContextShim, and the active context itself
\* when childOf is absent or foreign.
C3_ParentPrecedence ==
    call.op = "startSpan" =>
        LET context == call.tracer.context
            childOf == call.options.childOf
        IN CASE ChildOfKind(call.options) = "spanShim" ->
                    context.span = [kind |-> "span", id |-> spanShims[childOf.id]._span]
             [] ChildOfKind(call.options) = "ctxShim" ->
                    getSpanContext(context) = ctxShims[childOf.id]._spanContext
             [] OTHER -> context = active

\* A span was started as the child of a SpanShim while another span was active
C3_Witness ==
    /\ call.op = "startSpan"
    /\ ChildOfKind(call.options) = "spanShim"
    /\ active.span.kind # "none"
    /\ active.span # call.tracer.context.span
    /\ otelSpans[spanShims[call.ret]._span].sc.traceId
          = otelSpans[spanShims[call.options.childOf.id]._span].sc.traceId

\* C4: baggage inheritance at creation. Right after startSpan the new span's
\* context has the entries of the parent's snapshot when childOf is a SpanShim
\* or a SpanContextShim, and none when childOf is absent or foreign, whatever
\* baggage the active context carries.
C4_BaggageInherited ==
    call.op = "startSpan" =>
        LET new == spanShims[call.ret]._contextShim
            childOf == call.options.childOf
        IN CASE ChildOfKind(call.options) = "spanShim" ->
                    Entries(new) = Entries(spanShims[childOf.id]._contextShim)
             [] ChildOfKind(call.options) = "ctxShim" ->
                    Entries(new) = Entries(childOf.id)
             [] OTHER -> Entries(new) = EmptyEntries

\* A span was started as the child of a SpanContextShim that has baggage, while
\* the active context carried another baggage
C4_Witness ==
    /\ call.op = "startSpan"
    /\ ChildOfKind(call.options) = "ctxShim"
    /\ Entries(call.options.childOf.id) # EmptyEntries
    /\ getBaggage(active) # 0
    /\ baggages[getBaggage(active)].entries # Entries(call.options.childOf.id)
    /\ Entries(spanShims[call.ret]._contextShim) = Entries(call.options.childOf.id)

----------------------------------------------------------------------------
(* Links: startSpan under every list of references *)

StartLinked ==
    /\ Len(spanShims) < MaxSpanShims
    /\ \E c \in Optional("childOf", SpanShimRefs),
          r \in Optional("references", References(CtxShimRefs \cup {Foreign})),
          t \in Optional("startTime", {"t1"}) :
          StartSpan("op", c @@ r @@ t)

NextLinks == StartLinked

SpecLinks == Init /\ [][NextLinks]_vars

\* The places of the references to a SpanContextShim
ShimReferences(references) ==
    {i \in DOMAIN references : references[i].referencedContext.kind = "ctxShim"}

\* C6: link derivation. The links startSpan hands to the wrapped tracer are, in
\* the order of the references, one link for each reference to a
\* SpanContextShim, with the wrapped span context of that shim and the one
\* attribute span.kind, the type of the reference; a reference to a foreign
\* context gives no link.
C6_LinkDerivation ==
    (call.op = "startSpan" /\ Has(call.options, "references")) =>
        LET references == call.options.references
            links == call.tracer.options.links
            kept == ShimReferences(references)
        IN /\ Len(links) = Cardinality(kept)
           /\ \A i \in kept :
                LET link == links[Cardinality({j \in kept : j <= i})]
                    shim == ctxShims[references[i].referencedContext.id]
                IN /\ link.context = shim._spanContext
                   /\ DOMAIN link.attributes = {"span.kind"}
                   /\ link.attributes["span.kind"] = references[i].type

\* A span was started with a reference to a foreign context and then one to a
\* SpanContextShim
C6_Witness ==
    /\ call.op = "startSpan"
    /\ Has(call.options, "references")
    /\ Len(call.options.references) = 2
    /\ call.options.references[1].referencedContext = Foreign
    /\ call.options.references[2].referencedContext.kind = "ctxShim"
    /\ call.options.references[2].type = "follows_from"
    /\ Len(call.tracer.options.links) = 1

----------------------------------------------------------------------------
(* Tags: setTag under every key and value *)

StartTagged ==
    /\ Len(spanShims) < MaxLoneSpans
    /\ \E t \in Optional("tags", {ERROR :> JsTrue}) : StartSpan("op", t)

SetSomeTag ==
    \E s \in DOMAIN spanShims, k \in TagKeys, v \in TagValues : SetTag(s, k, v)

NextTags == StartTagged \/ SetSomeTag

SpecTags == Init /\ [][NextTags]_vars

\* C5: the error tag. setTag("error", true) and setTag("error", "true") set
\* the status of the wrapped span to the error code and set no attribute;
\* every other setTag sets the attribute key -> value and leaves the status.
C5_ErrorTag ==
    [][call'.op = "setTag" =>
        LET s == spanShims[call'.span]._span
            before == otelSpans[s]
            after == otelSpans'[s]
        IN /\ \A o \in DOMAIN otelSpans \ {s} : otelSpans'[o] = otelSpans[o]
           /\ IF call'.key = "error" /\ call'.value \in {JsTrue, JsString("true")}
              THEN /\ after.status = "ERROR"
                   /\ after.attributes = before.attributes
              ELSE /\ after.status = before.status
                   /\ DOMAIN after.attributes = DOMAIN before.attributes \cup {call'.key}
                   /\ after.attributes[call'.key] = call'.value
                   /\ \A k \in DOMAIN before.attributes \ {call'.key} :
                         after.attributes[k] = before.attributes[k]]_vars

\* setTag("error", "true") has just set the error status of a span that has no
\* attribute named error
C5_Witness ==
    /\ call.op = "setTag"
    /\ call.key = "error"
    /\ call.value = JsString("true")
    /\ otelSpans[spanShims[call.span]._span].status = "ERROR"
    /\ "error" \notin DOMAIN otelSpans[spanShims[call.span]._span].attributes
    /\ "http.method" \in DOMAIN otelSpans[spanShims[call.span]._span].attributes

----------------------------------------------------------------------------
(* Injection: inject under every format and carrier *)

StartLone ==
    /\ Len(spanShims) < MaxLoneSpans
    /\ StartSpan("op", EmptyOptions)

InjectCall ==
    \E c \in DOMAIN ctxShims, format \in Formats, carrierArg \in CarrierArgs :
        Inject(c, format, carrierArg)

NextInject == StartLone \/ SetOneBaggage \/ InjectCall \/ NewCarrier

SpecInject == Init /\ [][NextInject]_vars

\* C7: degradation of inject. inject calls a propagator only with an object
\* carrier and the text-map or the http-headers format; when it calls none the
\* carrier is as it was; it warns once, with an object carrier and the binary
\* format, and never otherwise: not with an unknown format, and not with an
\* absent or non-object carrier, whatever the format.
C7_InjectDegrades ==
    [][call'.op = "inject" =>
        LET object == IsObject(call'.carrierArg)
        IN /\ (call'.propagator # Undefined)
                <=> (object /\ call'.format \in {FORMAT_TEXT_MAP, FORMAT_HTTP_HEADERS})
           /\ (call'.propagator = Undefined) => (carrier' = carrier)
           /\ Len(call'.warns) = IF object /\ call'.format = FORMAT_BINARY
                                 THEN 1 ELSE 0]_vars

\* inject was called with the binary format and no carrier, while the carrier
\* object held what an earlier inject wrote
C7_Witness ==
    /\ call.op = "inject"
    /\ call.format = FORMAT_BINARY
    /\ call.carrierArg = "undefined"
    /\ call.warns = <<>>
    /\ carrier # EmptyCarrier

----------------------------------------------------------------------------
(* Extraction: extract of what inject wrote, under every format and baggage *)

InjectObject ==
    \E c \in DOMAIN ctxShims, format \in {FORMAT_TEXT_MAP, FORMAT_HTTP_HEADERS} :
        Inject(c, format, "object")

ExtractCall ==
    \E format \in Formats, carrierArg \in {"object", "undefined"} :
        /\ Extract(format, carrierArg)
        /\ Len(ctxShims') - Len(spanShims) <= MaxExtracted

NextExtract == StartLone \/ SetOneBaggage \/ InjectObject \/ ExtractCall \/ NewCarrier

SpecExtract == Init /\ [][NextExtract]_vars

\* The baggage entries SpanContextShim c holds after the step
EntriesAfter(c) == baggages'[ctxShims'[c]._baggage].entries

\* C8: the result of extract. It is null exactly when the format is binary
\* (one warning, no propagator called), or unknown (no warning, no propagator
\* called), or the propagator finds no span context in the carrier (no
\* warning); otherwise it is a new SpanContextShim with the extracted span
\* context and the extracted baggage, empty when the carrier held none.
C8_ExtractResult ==
    [][call'.op = "extract" =>
        LET p == call'.propagator
            known == call'.format \in {FORMAT_TEXT_MAP, FORMAT_HTTP_HEADERS}
            found == IsObject(call'.carrierArg) /\ p \in DOMAIN carrier
            ret == call'.ret
        IN /\ (ret = 0) <=> (call'.format = FORMAT_BINARY \/ ~known \/ ~found)
           /\ Len(call'.warns) = IF call'.format = FORMAT_BINARY THEN 1 ELSE 0
           /\ (p # Undefined) <=> known
           /\ ret = 0 => ctxShims' = ctxShims
           /\ ret # 0 => /\ ret = Len(ctxShims) + 1
                         /\ Len(ctxShims') = ret
                         /\ ctxShims'[ret]._spanContext = carrier[p].sc
                         /\ EntriesAfter(ret) = carrier[p].entries]_vars

\* extract has just made a SpanContextShim from a carrier that held no baggage
C8_Witness ==
    /\ call.op = "extract"
    /\ call.format = FORMAT_HTTP_HEADERS
    /\ call.ret # 0
    /\ Entries(call.ret) = EmptyEntries
    /\ \E c \in DOMAIN ctxShims : Entries(c) # EmptyEntries

\* C9: round trip. When the carrier object holds what inject(ctx, fmt, {})
\* writes, fmt the text-map or the http-headers format, extract(fmt, carrier)
\* returns a SpanContextShim with the trace id, the span id and the baggage
\* entries of ctx.
C9_RoundTrip ==
    [][(/\ call'.op = "extract"
        /\ IsObject(call'.carrierArg)
        /\ call'.format \in {FORMAT_TEXT_MAP, FORMAT_HTTP_HEADERS})
       => \A c \in DOMAIN ctxShims :
            carrier = _inject(c, call'.format, "object", EmptyCarrier).carrier
            => /\ call'.ret # 0
               /\ ctxShims'[call'.ret]._spanContext.traceId
                     = ctxShims[c]._spanContext.traceId
               /\ ctxShims'[call'.ret]._spanContext.spanId
                     = ctxShims[c]._spanContext.spanId
               /\ EntriesAfter(call'.ret) = Entries(c)]_vars

\* extract has just returned a SpanContextShim with the ids and the baggage of
\* a span that has baggage
C9_Witness ==
    /\ call.op = "extract"
    /\ call.format = FORMAT_TEXT_MAP
    /\ call.ret # 0
    /\ \E s \in DOMAIN spanShims :
          /\ ctxShims[spanShims[s]._contextShim]._spanContext
                = ctxShims[call.ret]._spanContext
          /\ Entries(spanShims[s]._contextShim) = Entries(call.ret)
          /\ Entries(call.ret) # EmptyEntries
          /\ carrier = _inject(spanShims[s]._contextShim, FORMAT_TEXT_MAP, "object",
                               EmptyCarrier).carrier

----------------------------------------------------------------------------
(* Dispatch: inject and extract under every override and default *)

InjectFormat == \E c \in DOMAIN ctxShims, format \in Formats : Inject(c, format, "object")

SetGlobal == \E g \in GlobalPropagators : SetGlobalPropagator(g)

NextDispatch == StartLone \/ InjectFormat \/ ExtractCall \/ SetGlobal \/ NewCarrier

SpecDispatch == InitConfigured /\ [][NextDispatch]_vars

\* The override of a format
Override(format) ==
    IF format = FORMAT_TEXT_MAP THEN "textMapPropagator" ELSE "httpHeadersPropagator"

\* C10: propagator dispatch. In every inject and extract the text-map format
\* resolves to the textMapPropagator override when there is one and else to
\* the default propagator of that moment, the http-headers format likewise
\* from the httpHeadersPropagator override alone, every other format to no
\* propagator; and no call changes the overrides.
C10_Dispatch ==
    [][/\ propagators' = propagators
       /\ call'.op \in {"inject", "extract"} =>
            call'.propagator =
                IF call'.format \in {FORMAT_TEXT_MAP, FORMAT_HTTP_HEADERS}
                THEN IF Has(propagators, Override(call'.format))
                     THEN propagators[Override(call'.format)]
                     ELSE globalPropagator
                ELSE Undefined]_vars

\* extract with the http-headers format went to the default propagator set
\* since construction, though a text-map override is configured
C10_Witness ==
    /\ call.op = "extract"
    /\ call.format = FORMAT_HTTP_HEADERS
    /\ Has(propagators, "textMapPropagator")
    /\ ~Has(propagators, "httpHeadersPropagator")
    /\ call.propagator = "g2"

====
